---------------------------- MODULE Spec2Model ----------------------------
(***************************************************************************)
(* A model of the football-data ingestion pipeline: the rate-limited HTTP  *)
(* client (src/src/data/ingest.py), the JSON flattener and CSV writer and  *)
(* the pipeline driver (src/src/main.py), and the dtype standardizer       *)
(* (src/src/utils/dataframe.py).                                           *)
(*                                                                         *)
(* Text is a sequence of one-character strings, so "a.b" is                *)
(* <<"a", ".", "b">> and the empty string is << >>.  A Python dict is a    *)
(* sequence of <<key, value>> pairs with distinct keys, in insertion       *)
(* order.  A JSON value is a pair <<tag, val>>:                            *)
(*   tag "num"  val = the digits of the number                             *)
(*   tag "str"  val = the characters of the text                           *)
(*   tag "list" val = the sequence of elements                             *)
(*   tag "map"  val = the dict                                             *)
(***************************************************************************)
EXTENDS Integers, Sequences, FiniteSets, TLC

VARIABLES
  \* flatten_json applied to two records
  rec, other, row, otherRow, reRow, fpc,
  \* matches_to_csv applied to a list of match records
  matches, file, cpc,
  \* standardize_types applied to a table, and to its own result
  nrows, table, once, twice, spc,
  \* FootballDataClient: the wall clock, _last_request_ts, the requests issued
  clock, last_request_ts, requests, waited,
  \* PremierLeagueFetcher.fetch(save=True): the raw files, the fetches made
  files, fetches,
  \* run_pipeline: the dataset at hand, the stage, the datasets attempted,
  \* each dataset's payload shape and raw CSV, the exception that ended the run
  dataset, stage, attempted, shapes, rawCsv, exception

flattenVars == <<rec, other, row, otherRow, reRow, fpc>>
csvVars == <<matches, file, cpc>>
stdVars == <<nrows, table, once, twice, spc>>
clientVars == <<clock, last_request_ts, requests, waited>>
fetchVars == <<files, fetches>>
pipeVars == <<dataset, stage, attempted, shapes, rawCsv, exception>>
vars == <<rec, other, row, otherRow, reRow, fpc, matches, file, cpc,
          nrows, table, once, twice, spc, clock, last_request_ts, requests, waited,
          files, fetches, dataset, stage, attempted, shapes, rawCsv, exception>>

----------------------------------------------------------------------------
(* Helpers on sequences and dicts *)

Range(s) == {s[i] : i \in DOMAIN s}

DictKeys(d) == [i \in DOMAIN d |-> d[i][1]]

HasKey(d, k) == \E i \in DOMAIN d : d[i][1] = k

\* dict.get(k): the value under k, or the marker None
None == <<"none", << >>>>

DictGet(d, k) ==
  IF HasKey(d, k) THEN d[CHOOSE i \in DOMAIN d : d[i][1] = k][2] ELSE None

\* d[k] = v: an existing key keeps its position and takes the new value,
\* a new key is appended
DictSet(d, k, v) ==
  IF HasKey(d, k)
    THEN [i \in DOMAIN d |-> IF d[i][1] = k THEN <<k, v>> ELSE d[i]]
    ELSE Append(d, <<k, v>>)

\* items.update(more)
RECURSIVE DictUpdate(_, _)
DictUpdate(items, more) ==
  IF more = << >> THEN items
  ELSE DictUpdate(DictSet(items, Head(more)[1], Head(more)[2]), Tail(more))

Num(digits) == <<"num", digits>>
Str(chars) == <<"str", chars>>
List(elems) == <<"list", elems>>
Map(d) == <<"map", d>>

Tag(value) == value[1]
Val(value) == value[2]

----------------------------------------------------------------------------
(* json.dumps(value, ensure_ascii=False) of a sequence of numbers, texts   *)
(* and sequences: "[" + ", ".join(elements) + "]"                          *)

RECURSIVE json_dumps(_)
RECURSIVE JoinDumps(_)
JoinDumps(elems) ==
  IF elems = << >> THEN << >>
  ELSE IF Len(elems) = 1 THEN json_dumps(elems[1])
  ELSE json_dumps(Head(elems)) \o <<",", " ">> \o JoinDumps(Tail(elems))

json_dumps(value) ==
  CASE Tag(value) = "num" -> Val(value)
    [] Tag(value) = "str" -> <<"\"">> \o Val(value) \o <<"\"">>
    [] Tag(value) = "list" -> <<"[">> \o JoinDumps(Val(value)) \o <<"]">>

----------------------------------------------------------------------------
(* flatten_json *)

\* a nested prefix that joins without the dot
NestedPrefixNoDot(prefix, key) == prefix \o key

\* a nested prefix that puts the dot after an empty prefix too
NestedPrefixAlwaysDot(prefix, key) == prefix \o <<".">> \o key

\* nested_prefix = f"{prefix}.{key}" if prefix else key
NestedPrefix(prefix, key) ==
  IF prefix # << >> THEN prefix \o <<".">> \o key ELSE key

RECURSIVE flatten_json(_, _)
RECURSIVE FlattenItems(_, _, _)
\* the loop over value.items(), items being the dict built so far
FlattenItems(d, prefix, items) ==
  IF d = << >> THEN items
  ELSE FlattenItems(Tail(d), prefix,
         DictUpdate(items,
                    flatten_json(Head(d)[2], NestedPrefix(prefix, Head(d)[1]))))

flatten_json(value, prefix) ==
  IF Tag(value) = "map" THEN FlattenItems(Val(value), prefix, << >>)
  ELSE IF Tag(value) = "list"
    THEN (IF prefix # << >> THEN <<<<prefix, Str(json_dumps(value))>>>> ELSE << >>)
  ELSE (IF prefix # << >> THEN <<<<prefix, value>>>> ELSE << >>)

----------------------------------------------------------------------------
(* matches_to_csv.  A CSV file is the sequence of its lines, a line the     *)
(* sequence of its cells, a cell the text csv.DictWriter writes for the     *)
(* value: str(value), and the empty text for None.  The file written by     *)
(* write_text("") has no line.                                              *)

\* the text of a cell
CellText(value) == IF value = None THEN << >> ELSE Val(value)

\* a loop that appends every key, seen or not
ScanKeysUnseen(keys, fieldnames) == fieldnames \o keys

\* the loop over row.keys(): fieldnames grows by the keys not seen yet
\* (seen is the set of the names in fieldnames)
RECURSIVE ScanKeys(_, _)
ScanKeys(keys, fieldnames) ==
  IF keys = << >> THEN fieldnames
  ELSE ScanKeys(Tail(keys),
                IF Head(keys) \notin Range(fieldnames)
                  THEN Append(fieldnames, Head(keys)) ELSE fieldnames)

\* the loop over rows
RECURSIVE ScanRows(_, _)
ScanRows(rows, fieldnames) ==
  IF rows = << >> THEN fieldnames
  ELSE ScanRows(Tail(rows), ScanKeys(DictKeys(Head(rows)), fieldnames))

\* writer.writerow({field: row.get(field) for field in fieldnames})
WriteRow(flat, fieldnames) ==
  [j \in DOMAIN fieldnames |-> CellText(DictGet(flat, fieldnames[j]))]

matches_to_csv(ms) ==
  LET rows == [i \in DOMAIN ms |-> flatten_json(ms[i], << >>)]
      fieldnames == ScanRows(rows, << >>)
  IN IF rows = << >> THEN << >>
     ELSE <<fieldnames>> \o [i \in DOMAIN rows |-> WriteRow(rows[i], fieldnames)]

----------------------------------------------------------------------------
(* utils/dataframe.py.  A DataFrame is a function from its column names to *)
(* the columns, a column the sequence of its cells.  A cell is a pair      *)
(* <<kind, v>>:                                                            *)
(*   "str"   a Python text, v its characters                               *)
(*   "int"   a Python or numpy integer, v = <<n>>                          *)
(*   "float" a float with one decimal, v = <<ten times its value>>         *)
(*   "nan"   NaN or None                                                   *)
(*   "Int64" a cell of a nullable-integer column, v = <<n>>                *)
(*   "NA"    pd.NA                                                         *)
(*   "dt"    a UTC timestamp, v = <<year, month, day>>                     *)
(*   "NaT"   the missing timestamp                                         *)

StrCell(chars) == <<"str", chars>>
IntCell(n) == <<"int", <<n>>>>
FloatCell(tenths) == <<"float", <<tenths>>>>
NaN == <<"nan", << >>>>
Int64Cell(n) == <<"Int64", <<n>>>>
NA == <<"NA", << >>>>
DtCell(y, m, d) == <<"dt", <<y, m, d>>>>
NaT == <<"NaT", << >>>>

Kind(cell) == cell[1]
Payload(cell) == cell[2]

HOME_TEAM == <<"H", "O", "M", "E", "_", "T", "E", "A", "M">>
AWAY_TEAM == <<"A", "W", "A", "Y", "_", "T", "E", "A", "M">>
DRAW == <<"D", "R", "A", "W">>

\* WINNER_MAP = {"HOME_TEAM": "H", "AWAY_TEAM": "A", "DRAW": "D"}
WINNER_MAP == <<<<HOME_TEAM, <<"H">>>>, <<AWAY_TEAM, <<"A">>>>, <<DRAW, <<"D">>>>>>

ID_COLUMNS == <<"id", "homeTeam.id", "awayTeam.id">>
TEAM_NAME_COLUMNS == <<"homeTeam.name", "awayTeam.name">>

Digits == <<"0", "1", "2", "3", "4", "5", "6", "7", "8", "9">>
IsDigits(chars) == chars # << >> /\ \A i \in DOMAIN chars : chars[i] \in Range(Digits)
DigitValue(c) == (CHOOSE i \in DOMAIN Digits : Digits[i] = c) - 1

RECURSIVE ParseInt(_)
ParseInt(chars) ==
  IF chars = << >> THEN 0
  ELSE 10 * ParseInt(SubSeq(chars, 1, Len(chars) - 1)) + DigitValue(chars[Len(chars)])

\* the parse of an ISO date text YYYY-MM-DD; any other text is no date
ParseDate(chars) ==
  IF /\ Len(chars) = 10
     /\ chars[5] = "-" /\ chars[8] = "-"
     /\ IsDigits(SubSeq(chars, 1, 4))
     /\ IsDigits(SubSeq(chars, 6, 7))
     /\ IsDigits(SubSeq(chars, 9, 10))
     /\ ParseInt(SubSeq(chars, 6, 7)) \in 1..12
     /\ ParseInt(SubSeq(chars, 9, 10)) \in 1..28
    THEN DtCell(ParseInt(SubSeq(chars, 1, 4)), ParseInt(SubSeq(chars, 6, 7)),
                ParseInt(SubSeq(chars, 9, 10)))
    ELSE NaT

\* pd.to_datetime(series, errors="coerce", utc=True), cell by cell
ToDatetimeCell(cell) ==
  CASE Kind(cell) = "str" -> ParseDate(Payload(cell))
    [] Kind(cell) = "dt" -> cell
    [] OTHER -> NaT

to_datetime(series) == [i \in DOMAIN series |-> ToDatetimeCell(series[i])]

\* the parse of a numeral: digits, or digits "." digit
ParseNumber(chars) ==
  IF IsDigits(chars) THEN IntCell(ParseInt(chars))
  ELSE IF /\ Len(chars) >= 3
          /\ chars[Len(chars) - 1] = "."
          /\ IsDigits(SubSeq(chars, 1, Len(chars) - 2))
          /\ IsDigits(<<chars[Len(chars)]>>)
    THEN FloatCell(10 * ParseInt(SubSeq(chars, 1, Len(chars) - 2))
                   + DigitValue(chars[Len(chars)]))
  ELSE NaN

\* pd.to_numeric(series, errors="coerce"), cell by cell
ToNumericCell(cell) ==
  CASE Kind(cell) = "str" -> ParseNumber(Payload(cell))
    [] Kind(cell) \in {"int", "float"} -> cell
    [] Kind(cell) = "Int64" -> IntCell(Payload(cell)[1])
    [] OTHER -> NaN

to_numeric(series) == [i \in DOMAIN series |-> ToNumericCell(series[i])]

\* a result: the value returned, or the TypeError raised
Ok(x) == <<"ok", x>>
TypeError == <<"TypeError", << >>>>
Raised(result) == result[1] = "TypeError"

\* a float that is no whole number: astype("Int64") cannot cast it safely
NotIntegral(cell) == Kind(cell) = "float" /\ Payload(cell)[1] % 10 # 0

AsInt64Cell(cell) ==
  CASE Kind(cell) = "int" -> Int64Cell(Payload(cell)[1])
    [] Kind(cell) = "float" -> Int64Cell(Payload(cell)[1] \div 10)
    [] OTHER -> NA

\* series.astype("Int64") of a numeric series
astype_Int64(series) ==
  IF \E i \in DOMAIN series : NotIntegral(series[i]) THEN TypeError
  ELSE Ok([i \in DOMAIN series |-> AsInt64Cell(series[i])])

\* a step of standardize_types on the frame, unless an earlier step raised
Then(result, Step(_)) == IF Raised(result) THEN result ELSE Step(result[2])

\* df[column] = series, unless computing the series raised
SetColumn(df, column, series) ==
  IF Raised(series) THEN TypeError
  ELSE Ok([c \in DOMAIN df \cup {column} |-> IF c = column THEN series[2] ELSE df[c]])

convert_to_datetime(df, column) ==
  IF column \in DOMAIN df
    THEN SetColumn(df, column, Ok(to_datetime(df[column])))
    ELSE Ok(df)

convert_to_int(df, column) ==
  IF column \in DOMAIN df
    THEN SetColumn(df, column, astype_Int64(to_numeric(df[column])))
    ELSE Ok(df)

WhiteSpace == {" ", "\t"}

\* str.strip()
RECURSIVE LStrip(_)
LStrip(chars) ==
  IF chars # << >> /\ Head(chars) \in WhiteSpace THEN LStrip(Tail(chars)) ELSE chars

RECURSIVE RStrip(_)
RStrip(chars) ==
  IF chars # << >> /\ chars[Len(chars)] \in WhiteSpace
    THEN RStrip(SubSeq(chars, 1, Len(chars) - 1)) ELSE chars

Strip(chars) == RStrip(LStrip(chars))

\* str.replace(r"\s+", "_", regex=True): each run of whitespace becomes "_"
RECURSIVE ReplaceRuns(_)
ReplaceRuns(chars) ==
  IF chars = << >> THEN << >>
  ELSE IF Head(chars) \in WhiteSpace
    THEN <<"_">> \o ReplaceRuns(LStrip(chars))
  ELSE <<Head(chars)>> \o ReplaceRuns(Tail(chars))

\* series.astype("string"), cell by cell
AsStringCell(cell) ==
  CASE Kind(cell) = "str" -> cell
    [] OTHER -> NA

StripTextCell(cell) ==
  LET text == AsStringCell(cell)
  IN IF text = NA THEN NA ELSE StrCell(ReplaceRuns(Strip(Payload(text))))

strip_text(df, column) ==
  IF column \in DOMAIN df
    THEN SetColumn(df, column,
                   Ok([i \in DOMAIN df[column] |-> StripTextCell(df[column][i])]))
    ELSE Ok(df)

\* series.map(WINNER_MAP), cell by cell: a value that is no key maps to NaN
MapCell(cell) ==
  IF Kind(cell) = "str" /\ \E i \in DOMAIN WINNER_MAP : WINNER_MAP[i][1] = Payload(cell)
    THEN StrCell(WINNER_MAP[CHOOSE i \in DOMAIN WINNER_MAP : WINNER_MAP[i][1] = Payload(cell)][2])
    ELSE NaN

\* the mapped column without the fillna
MapWinnerNoFill(series) == [i \in DOMAIN series |-> MapCell(series[i])]

\* mapped.fillna(converted["score.winner"])
MapWinner(series) ==
  [i \in DOMAIN series |-> IF MapCell(series[i]) = NaN THEN series[i] ELSE MapCell(series[i])]

map_winner(df) ==
  IF "score.winner" \in DOMAIN df
    THEN SetColumn(df, "score.winner", Ok(MapWinner(df["score.winner"])))
    ELSE Ok(df)

ConvertUtcDate(df) == convert_to_datetime(df, "utcDate")
ConvertLastUpdated(df) == convert_to_datetime(df, "lastUpdated")
ConvertMatchday(df) ==
  IF "matchday" \in DOMAIN df
    THEN SetColumn(df, "matchday", astype_Int64(to_numeric(df["matchday"])))
    ELSE Ok(df)
ConvertId1(df) == convert_to_int(df, ID_COLUMNS[1])
ConvertId2(df) == convert_to_int(df, ID_COLUMNS[2])
ConvertId3(df) == convert_to_int(df, ID_COLUMNS[3])
StripName1(df) == strip_text(df, TEAM_NAME_COLUMNS[1])
StripName2(df) == strip_text(df, TEAM_NAME_COLUMNS[2])

standardize_types(df) ==
  Then(Then(Then(Then(Then(Then(Then(Then(
    ConvertUtcDate(df),
    ConvertLastUpdated), ConvertMatchday), ConvertId1), ConvertId2), ConvertId3),
    map_winner), StripName1), StripName2)

----------------------------------------------------------------------------
(* The serialize/deserialize round trip of a FlatRow: json.dumps of a flat *)
(* dict of numbers and texts, and json.loads of that text.  The texts of   *)
(* the model hold no quote and no backslash, so nothing is escaped.        *)

RECURSIVE DumpsEntries(_)
DumpsEntries(d) ==
  IF d = << >> THEN << >>
  ELSE LET e == <<"\"">> \o Head(d)[1] \o <<"\"", ":", " ">> \o json_dumps(Head(d)[2])
       IN IF Len(d) = 1 THEN e ELSE e \o <<",", " ">> \o DumpsEntries(Tail(d))

DumpsDict(d) == <<"{">> \o DumpsEntries(d) \o <<"}">>

\* the characters of s before the first one in stops, and those from it on
RECURSIVE TakeUntil(_, _)
TakeUntil(s, stops) ==
  IF s = << >> \/ Head(s) \in stops THEN << >>
  ELSE <<Head(s)>> \o TakeUntil(Tail(s), stops)

DropUntil(s, stops) == SubSeq(s, Len(TakeUntil(s, stops)) + 1, Len(s))

\* s stands right after "{" or after ", ": the entries up to "}"
RECURSIVE LoadsEntries(_, _)
LoadsEntries(s, items) ==
  IF s = << >> \/ Head(s) = "}" THEN items
  ELSE LET key == TakeUntil(Tail(s), {"\""})
           afterKey == Tail(DropUntil(Tail(s), {"\""}))      \* at ": "
           atValue == SubSeq(afterKey, 3, Len(afterKey))
           isText == Head(atValue) = "\""
           value == IF isText THEN Str(TakeUntil(Tail(atValue), {"\""}))
                    ELSE Num(TakeUntil(atValue, {",", "}"}))
           afterValue == IF isText THEN Tail(DropUntil(Tail(atValue), {"\""}))
                         ELSE DropUntil(atValue, {",", "}"})
           next == IF Head(afterValue) = ","
                   THEN SubSeq(afterValue, 3, Len(afterValue)) ELSE afterValue
       IN LoadsEntries(next, DictSet(items, key, value))

LoadsDict(text) == LoadsEntries(Tail(text), << >>)

RoundTrip(d) == LoadsDict(DumpsDict(d))

----------------------------------------------------------------------------
(* The records flatten_json is applied to *)

\* the most key/value entries, nested ones included, in the records of one state
MaxEntries == 3

FlattenKeys == {<<"a">>, <<"b">>, <<"a", ".", "b">>, << >>}

\* a number, a text, and a sequence whose serialization is that text
FlattenLeaves == {Num(<<"1">>), Str(<<"[", "1", "]">>), List(<<Num(<<"1">>)>>)}

\* the number of key/value entries of a value, nested ones included
RECURSIVE Entries(_)
RECURSIVE EntriesOfDict(_)
EntriesOfDict(d) ==
  IF d = << >> THEN 0 ELSE 1 + Entries(Head(d)[2]) + EntriesOfDict(Tail(d))

Entries(value) == IF Tag(value) = "map" THEN EntriesOfDict(Val(value)) ELSE 0

\* the places of the mappings of a value: each a sequence of entry indices
RECURSIVE MapPlaces(_)
MapPlaces(value) ==
  IF Tag(value) # "map" THEN {}
  ELSE {<< >>} \cup
       UNION {{<<i>> \o p : p \in MapPlaces(Val(value)[i][2])} : i \in DOMAIN Val(value)}

\* the mapping at a place
RECURSIVE MapAt(_, _)
MapAt(value, place) ==
  IF place = << >> THEN value ELSE MapAt(Val(value)[Head(place)][2], Tail(place))

\* the value with one more entry at the end of the mapping at a place
RECURSIVE WithEntry(_, _, _)
WithEntry(value, place, entry) ==
  IF place = << >> THEN Map(Append(Val(value), entry))
  ELSE Map([Val(value) EXCEPT ![Head(place)] =
              <<@[1], WithEntry(@[2], Tail(place), entry)>>])

NotYet == <<"unset">>

FlattenInit ==
  /\ rec = Map(<< >>)
  /\ other = Map(<< >>)
  /\ row = NotYet
  /\ otherRow = NotYet
  /\ reRow = NotYet
  /\ fpc = "input"

\* the caller builds the first record
GrowRec ==
  /\ fpc = "input"
  /\ Entries(rec) + Entries(other) < MaxEntries
  /\ \E place \in MapPlaces(rec), k \in FlattenKeys,
        v \in FlattenLeaves \cup {Map(<< >>)} :
        /\ ~HasKey(Val(MapAt(rec, place)), k)
        /\ rec' = WithEntry(rec, place, <<k, v>>)
  /\ UNCHANGED <<other, row, otherRow, reRow, fpc>>
  /\ UNCHANGED <<csvVars, stdVars, clientVars, fetchVars, pipeVars>>

\* the caller builds the second record
GrowOther ==
  /\ fpc = "input"
  /\ Entries(rec) + Entries(other) < MaxEntries
  /\ \E place \in MapPlaces(other), k \in FlattenKeys,
        v \in FlattenLeaves \cup {Map(<< >>)} :
        /\ ~HasKey(Val(MapAt(other, place)), k)
        /\ other' = WithEntry(other, place, <<k, v>>)
  /\ UNCHANGED <<rec, row, otherRow, reRow, fpc>>
  /\ UNCHANGED <<csvVars, stdVars, clientVars, fetchVars, pipeVars>>

\* flatten_json(match) of each record
Flatten ==
  /\ fpc = "input"
  /\ row' = flatten_json(rec, << >>)
  /\ otherRow' = flatten_json(other, << >>)
  /\ fpc' = "flat"
  /\ UNCHANGED <<rec, other, reRow>>
  /\ UNCHANGED <<csvVars, stdVars, clientVars, fetchVars, pipeVars>>

\* flatten_json of the FlatRow after a serialize/deserialize round trip
Reflatten ==
  /\ fpc = "flat"
  /\ reRow' = flatten_json(Map(RoundTrip(row)), << >>)
  /\ fpc' = "reflat"
  /\ UNCHANGED <<rec, other, row, otherRow>>
  /\ UNCHANGED <<csvVars, stdVars, clientVars, fetchVars, pipeVars>>

FlattenNext == GrowRec \/ GrowOther \/ Flatten \/ Reflatten

----------------------------------------------------------------------------
(* The lists of match records matches_to_csv is applied to *)

\* the most match records in a list
MaxMatches == 2

CsvKeys == {<<"a">>, <<"b">>, <<"a", ".", "b">>}

CsvLeaves == {Num(<<"1">>), List(<<Num(<<"1">>)>>)}

RECURSIVE SumEntries(_)
SumEntries(ms) == IF ms = << >> THEN 0 ELSE Entries(Head(ms)) + SumEntries(Tail(ms))

CsvInit ==
  /\ matches = << >>
  /\ file = NotYet
  /\ cpc = "input"

\* the caller adds an empty record to the list
AppendMatch ==
  /\ cpc = "input"
  /\ Len(matches) < MaxMatches
  /\ matches' = Append(matches, Map(<< >>))
  /\ UNCHANGED <<file, cpc>>
  /\ UNCHANGED <<flattenVars, stdVars, clientVars, fetchVars, pipeVars>>

\* the caller adds an entry to the last record of the list
GrowMatch ==
  /\ cpc = "input"
  /\ matches # << >>
  /\ SumEntries(matches) < MaxEntries
  /\ \E place \in MapPlaces(matches[Len(matches)]), k \in CsvKeys,
        v \in CsvLeaves \cup {Map(<< >>)} :
        /\ ~HasKey(Val(MapAt(matches[Len(matches)], place)), k)
        /\ matches' = [matches EXCEPT ![Len(matches)] = WithEntry(@, place, <<k, v>>)]
  /\ UNCHANGED <<file, cpc>>
  /\ UNCHANGED <<flattenVars, stdVars, clientVars, fetchVars, pipeVars>>

\* matches_to_csv(matches, output_path)
WriteCsv ==
  /\ cpc = "input"
  /\ file' = matches_to_csv(matches)
  /\ cpc' = "written"
  /\ UNCHANGED matches
  /\ UNCHANGED <<flattenVars, stdVars, clientVars, fetchVars, pipeVars>>

CsvNext == AppendMatch \/ GrowMatch \/ WriteCsv

----------------------------------------------------------------------------
(* The tables standardize_types is applied to *)

\* the most cells in a table: its rows times its columns
MaxCells == 3

DateCells == {StrCell(<<"2", "0", "2", "3", "-", "0", "8", "-", "1", "1">>),
              StrCell(<<"2", "0", "2", "3", "-", "1", "3", "-", "0", "1">>),
              NaN}

NumberCells == {IntCell(3), FloatCell(20), FloatCell(15), StrCell(<<"7">>),
                StrCell(<<"x">>), NaN}

WinnerCells == {StrCell(HOME_TEAM), StrCell(AWAY_TEAM), StrCell(DRAW),
                StrCell(<<"H">>), StrCell(<<"X">>), NaN}

NameCells == {StrCell(<<" ", "a">>), StrCell(<<"a", " ", " ", " ", "b", "\t">>),
              StrCell(<<"a", "_", "b">>), StrCell(<<" ">>), NaN}

VenueCells == {StrCell(<<" ", "x">>)}

Columns == {"utcDate", "lastUpdated", "matchday", "id", "homeTeam.id", "awayTeam.id",
            "score.winner", "homeTeam.name", "awayTeam.name", "venue"}

CellsOf(column) ==
  CASE column \in {"utcDate", "lastUpdated"} -> DateCells
    [] column \in {"matchday", "id", "homeTeam.id", "awayTeam.id"} -> NumberCells
    [] column = "score.winner" -> WinnerCells
    [] column \in {"homeTeam.name", "awayTeam.name"} -> NameCells
    [] OTHER -> VenueCells

EmptyFrame == [c \in {} |-> << >>]

StdInit ==
  /\ nrows = 0
  /\ table = EmptyFrame
  /\ once = NotYet
  /\ twice = NotYet
  /\ spc = "input"

\* the caller adds a row to a table that has no column yet
AddRow ==
  /\ spc = "input"
  /\ DOMAIN table = {}
  /\ nrows < MaxCells
  /\ nrows' = nrows + 1
  /\ UNCHANGED <<table, once, twice, spc>>
  /\ UNCHANGED <<flattenVars, csvVars, clientVars, fetchVars, pipeVars>>

\* the caller adds a column, with a cell for each row
AddColumn ==
  /\ spc = "input"
  /\ nrows >= 1
  /\ (Cardinality(DOMAIN table) + 1) * nrows <= MaxCells
  /\ \E column \in Columns \ DOMAIN table :
       \E series \in [1..nrows -> CellsOf(column)] :
          table' = [c \in DOMAIN table \cup {column} |->
                      IF c = column THEN series ELSE table[c]]
  /\ UNCHANGED <<nrows, once, twice, spc>>
  /\ UNCHANGED <<flattenVars, csvVars, clientVars, fetchVars, pipeVars>>

\* standardize_types(df)
Standardize ==
  /\ spc = "input"
  /\ once' = standardize_types(table)
  /\ spc' = "once"
  /\ UNCHANGED <<nrows, table, twice>>
  /\ UNCHANGED <<flattenVars, csvVars, clientVars, fetchVars, pipeVars>>

\* standardize_types of the table standardize_types returned
StandardizeAgain ==
  /\ spc = "once"
  /\ ~Raised(once)
  /\ twice' = standardize_types(once[2])
  /\ spc' = "twice"
  /\ UNCHANGED <<nrows, table, once>>
  /\ UNCHANGED <<flattenVars, csvVars, clientVars, fetchVars, pipeVars>>

StdNext == AddRow \/ AddColumn \/ Standardize \/ StandardizeAgain

----------------------------------------------------------------------------
(* data/ingest.py: FootballDataClient.get.  Time is counted in tenths of a *)
(* second.  The caller is single-threaded and get blocks, so one call of   *)
(* get is one step: it reads the clock, sleeps, sends the request and gets *)
(* the response or the exception.                                          *)

\* MIN_REQUEST_INTERVAL_SECONDS = 6.2
MIN_REQUEST_INTERVAL_SECONDS == 62

\* the most calls of get in a run
MaxCalls == 3

\* how long a request takes to return or to fail: at once, 2 s, or the 30 s
\* of timeout=30
RequestTicks == {1, 20, 300}

\* how long the caller waits between two calls
WaitTicks == {10, 62}

\* time.sleep(d) returns after d or a little later
Oversleep == {0, 1}

ClientInit ==
  /\ clock = 0
  /\ last_request_ts = << >>                   \* None
  /\ requests = << >>
  /\ waited = FALSE

\* the time get sleeps when called at now
SleepFor(now) ==
  IF last_request_ts # << >> /\ now - last_request_ts[1] < MIN_REQUEST_INTERVAL_SECONDS
    THEN MIN_REQUEST_INTERVAL_SECONDS - (now - last_request_ts[1])
    ELSE 0

\* get(endpoint, params) whose request ends with outcome after took
Get(outcome, took, overslept) ==
  LET now == clock
      issued == now + (IF SleepFor(now) > 0 THEN SleepFor(now) + overslept ELSE 0)
      done == issued + took
  IN /\ clock' = done
        \* session.get raised: the assignment after it is not reached
     /\ last_request_ts' = IF outcome = "transport" THEN last_request_ts ELSE <<done>>
     /\ requests' = Append(requests, [called |-> now, issued |-> issued,
                                      done |-> done, outcome |-> outcome])
     /\ waited' = FALSE
     /\ UNCHANGED <<flattenVars, csvVars, stdVars, fetchVars, pipeVars>>

\* get returns response.json()
GetReturns ==
  /\ Len(requests) < MaxCalls
  /\ \E took \in RequestTicks, overslept \in Oversleep : Get("ok", took, overslept)

\* response.raise_for_status() raises HTTPError
GetRaisesHTTPError ==
  /\ Len(requests) < MaxCalls
  /\ \E took \in RequestTicks, overslept \in Oversleep : Get("http", took, overslept)

\* session.get raises: a timeout or a connection error
GetRaisesTransportError ==
  /\ Len(requests) < MaxCalls
  /\ \E took \in RequestTicks, overslept \in Oversleep : Get("transport", took, overslept)

\* the caller does something else between two calls
Wait ==
  /\ ~waited
  /\ Len(requests) < MaxCalls
  /\ \E d \in WaitTicks : clock' = clock + d
  /\ waited' = TRUE
  /\ UNCHANGED <<last_request_ts, requests>>
  /\ UNCHANGED <<flattenVars, csvVars, stdVars, fetchVars, pipeVars>>

ClientNext == GetReturns \/ GetRaisesHTTPError \/ GetRaisesTransportError \/ Wait

----------------------------------------------------------------------------
(* data/ingest.py: PremierLeagueFetcher.fetch and the file it writes;      *)
(* main.py: build_csv_path                                                 *)

UpperCase == <<"A", "B", "C", "D", "E", "F", "G", "H", "I", "J", "K", "L", "M",
               "N", "O", "P", "Q", "R", "S", "T", "U", "V", "W", "X", "Y", "Z">>
LowerCase == <<"a", "b", "c", "d", "e", "f", "g", "h", "i", "j", "k", "l", "m",
               "n", "o", "p", "q", "r", "s", "t", "u", "v", "w", "x", "y", "z">>

\* str.lower()
Lower(chars) ==
  [i \in DOMAIN chars |->
     IF chars[i] \in Range(UpperCase)
       THEN LowerCase[CHOOSE j \in DOMAIN UpperCase : UpperCase[j] = chars[i]]
       ELSE chars[i]]

\* str(n) of a natural number
RECURSIVE IntText(_)
IntText(n) ==
  IF n < 10 THEN <<Digits[n + 1]>>
  ELSE IntText(n \div 10) \o <<Digits[(n % 10) + 1]>>

FINISHED == <<"F", "I", "N", "I", "S", "H", "E", "D">>
SCHEDULED == <<"S", "C", "H", "E", "D", "U", "L", "E", "D">>

\* f"premier_league_{params.season}_{suffix}.json"
build_output_path(params) ==
  <<"p", "r", "e", "m", "i", "e", "r", "_", "l", "e", "a", "g", "u", "e", "_">>
    \o IntText(params.season) \o <<"_">> \o Lower(params.status)
    \o <<".", "j", "s", "o", "n">>

\* f"{competition}_{params.season}_{suffix}.csv"
build_csv_path(params) ==
  Lower(params.competition_code) \o <<"_">> \o IntText(params.season) \o <<"_">>
    \o Lower(params.status) \o <<".", "c", "s", "v">>

\* the most fetches in a run
MaxFetches == 2

FetchParams ==
  [season : {2023, 2024},
   status : {FINISHED, Lower(FINISHED), SCHEDULED},
   competition_code : {<<"P", "L">>, <<"p", "l">>, <<"B", "L", "1">>}]

FetchInit ==
  /\ files = [path \in {} |-> 0]
  /\ fetches = << >>

\* fetch(params, save=True): the payload of the n-th fetch is n
FetchAndSave ==
  /\ Len(fetches) < MaxFetches
  /\ \E params \in FetchParams :
       LET out_path == build_output_path(params)
           payload == Len(fetches) + 1
       IN /\ files' = [path \in DOMAIN files \cup {out_path} |->
                         IF path = out_path THEN payload ELSE files[path]]
          /\ fetches' = Append(fetches, [params |-> params, saved |-> TRUE,
                                         path |-> out_path, raised |-> FALSE])
  /\ UNCHANGED <<flattenVars, csvVars, stdVars, clientVars, pipeVars>>

\* fetch(params, save=False)
FetchOnly ==
  /\ Len(fetches) < MaxFetches
  /\ \E params \in FetchParams :
       fetches' = Append(fetches, [params |-> params, saved |-> FALSE,
                                   path |-> << >>, raised |-> FALSE])
  /\ UNCHANGED files
  /\ UNCHANGED <<flattenVars, csvVars, stdVars, clientVars, pipeVars>>

\* fetch(params) whose client.get raises: nothing is written
FetchRaises ==
  /\ Len(fetches) < MaxFetches
  /\ \E params \in FetchParams :
       fetches' = Append(fetches, [params |-> params, saved |-> FALSE,
                                   path |-> << >>, raised |-> TRUE])
  /\ UNCHANGED files
  /\ UNCHANGED <<flattenVars, csvVars, stdVars, clientVars, pipeVars>>

FetchNext == FetchAndSave \/ FetchOnly \/ FetchRaises

----------------------------------------------------------------------------
(* main.py: run_pipeline over DATASETS *)

DATASETS ==
  <<[season |-> 2023, status |-> FINISHED, competition_code |-> <<"P", "L">>],
    [season |-> 2024, status |-> FINISHED, competition_code |-> <<"P", "L">>],
    [season |-> 2025, status |-> FINISHED, competition_code |-> <<"P", "L">>]>>

MatchesKey == <<"m", "a", "t", "c", "h", "e", "s">>
IdKey == <<"i", "d">>
ScoreKey == <<"s", "c", "o", "r", "e">>
WinnerKey == <<"w", "i", "n", "n", "e", "r">>
MessageKey == <<"m", "e", "s", "s", "a", "g", "e">>

MatchOne == Map(<<<<IdKey, Num(<<"1">>)>>>>)
MatchTwo == Map(<<<<IdKey, Num(<<"2">>)>>,
                  <<ScoreKey, Map(<<<<WinnerKey, Str(HOME_TEAM)>>>>)>>>>)

\* what fetch may return: a mapping with matches, a mapping with an empty
\* list of matches, a mapping without the key, and a payload that is a list
Payloads ==
  {Map(<<<<MatchesKey, List(<<MatchOne>>)>>>>),
   Map(<<<<MatchesKey, List(<<MatchOne, MatchTwo>>)>>>>),
   Map(<<<<MatchesKey, List(<< >>)>>>>),
   Map(<<<<MessageKey, Str(<<"x">>)>>>>),
   List(<< >>)}

\* payload.get("matches", []) if isinstance(payload, Mapping) else []
MatchesOf(payload) ==
  IF Tag(payload) = "map"
    THEN (IF HasKey(Val(payload), MatchesKey)
            THEN Val(DictGet(Val(payload), MatchesKey)) ELSE << >>)
    ELSE << >>

Shape(payload) ==
  IF Tag(payload) # "map" THEN "not_mapping"
  ELSE IF ~HasKey(Val(payload), MatchesKey) THEN "no_key"
  ELSE "matches"

PipeInit ==
  /\ dataset = 1
  /\ stage = "ingest"
  /\ attempted = {}
  /\ shapes = [k \in DOMAIN DATASETS |-> "none"]
  /\ rawCsv = [k \in DOMAIN DATASETS |-> NotYet]
  /\ exception = "none"

\* an exception leaves run_pipeline: nothing in it catches one
Abort(cause) ==
  /\ stage' = "aborted"
  /\ exception' = cause
  /\ UNCHANGED dataset

\* ingest_dataset returns csv_path
Ingest ==
  /\ stage = "ingest"
  /\ \E payload \in Payloads :
       /\ shapes' = [shapes EXCEPT ![dataset] = Shape(payload)]
       /\ rawCsv' = [rawCsv EXCEPT ![dataset] = matches_to_csv(MatchesOf(payload))]
  /\ attempted' = attempted \cup {dataset}
  /\ stage' = "clean"
  /\ UNCHANGED <<dataset, exception>>
  /\ UNCHANGED <<flattenVars, csvVars, stdVars, clientVars, fetchVars>>

\* ingest_dataset: fetcher.fetch raises
IngestFetchRaises ==
  /\ stage = "ingest"
  /\ \E cause \in {"HTTPError", "Timeout"} : Abort(cause)
  /\ attempted' = attempted \cup {dataset}
  /\ UNCHANGED <<shapes, rawCsv>>
  /\ UNCHANGED <<flattenVars, csvVars, stdVars, clientVars, fetchVars>>

\* ingest_dataset: matches_to_csv raises on the file system
IngestWriteRaises ==
  /\ stage = "ingest"
  /\ \E payload \in Payloads : shapes' = [shapes EXCEPT ![dataset] = Shape(payload)]
  /\ Abort("OSError")
  /\ attempted' = attempted \cup {dataset}
  /\ UNCHANGED rawCsv
  /\ UNCHANGED <<flattenVars, csvVars, stdVars, clientVars, fetchVars>>

\* clean_dataset returns output_path
Clean ==
  /\ stage = "clean"
  /\ rawCsv[dataset] # << >>
  /\ stage' = "features"
  /\ UNCHANGED <<dataset, attempted, shapes, rawCsv, exception>>
  /\ UNCHANGED <<flattenVars, csvVars, stdVars, clientVars, fetchVars>>

\* clean_dataset: pd.read_csv of a file with no line raises EmptyDataError
CleanRaisesEmptyData ==
  /\ stage = "clean"
  /\ rawCsv[dataset] = << >>
  /\ Abort("EmptyDataError")
  /\ UNCHANGED <<attempted, shapes, rawCsv>>
  /\ UNCHANGED <<flattenVars, csvVars, stdVars, clientVars, fetchVars>>

\* clean_dataset: clean_dataframe or the write raises
CleanRaises ==
  /\ stage = "clean"
  /\ rawCsv[dataset] # << >>
  /\ Abort("CleanError")
  /\ UNCHANGED <<attempted, shapes, rawCsv>>
  /\ UNCHANGED <<flattenVars, csvVars, stdVars, clientVars, fetchVars>>

\* build_feature_matrix returns; the loop goes on, or the run ends
Features ==
  /\ stage = "features"
  /\ IF dataset < Len(DATASETS)
       THEN dataset' = dataset + 1 /\ stage' = "ingest"
       ELSE dataset' = dataset /\ stage' = "done"
  /\ UNCHANGED <<attempted, shapes, rawCsv, exception>>
  /\ UNCHANGED <<flattenVars, csvVars, stdVars, clientVars, fetchVars>>

\* build_feature_matrix raises
FeaturesRaises ==
  /\ stage = "features"
  /\ Abort("FeatureError")
  /\ UNCHANGED <<attempted, shapes, rawCsv>>
  /\ UNCHANGED <<flattenVars, csvVars, stdVars, clientVars, fetchVars>>

PipeNext ==
  \/ Ingest \/ IngestFetchRaises \/ IngestWriteRaises
  \/ Clean \/ CleanRaisesEmptyData \/ CleanRaises
  \/ Features \/ FeaturesRaises

----------------------------------------------------------------------------
(* The specifications: each runs one component, the others at rest *)

Init == FlattenInit /\ CsvInit /\ StdInit /\ ClientInit /\ FetchInit /\ PipeInit

SpecFlatten == Init /\ [][FlattenNext]_vars
SpecCsv == Init /\ [][CsvNext]_vars
SpecStd == Init /\ [][StdNext]_vars
SpecClient == Init /\ [][ClientNext]_vars
SpecFetch == Init /\ [][FetchNext]_vars
SpecPipeline == Init /\ [][PipeNext]_vars

Next == FlattenNext \/ CsvNext \/ StdNext \/ ClientNext \/ FetchNext \/ PipeNext

Spec == Init /\ [][Next]_vars

----------------------------------------------------------------------------
(* What flatten_json is to keep: the leaves of a record *)

\* the leaves of a value, each with the keys leading to it
RECURSIVE Leaves(_, _)
Leaves(value, path) ==
  IF Tag(value) = "map"
    THEN UNION {Leaves(Val(value)[i][2], Append(path, Val(value)[i][1])) :
                  i \in DOMAIN Val(value)}
    ELSE {<<path, value>>}

\* ".".join(path)
RECURSIVE JoinPath(_)
JoinPath(path) ==
  IF Len(path) = 1 THEN path[1] ELSE path[1] \o <<".">> \o JoinPath(Tail(path))

\* a leaf as its cell: a sequence as its serialized text
AsCell(leaf) == IF Tag(leaf) = "list" THEN Str(json_dumps(leaf)) ELSE leaf

CellLeaves(value) == {<<lf[1], AsCell(lf[2])>> : lf \in Leaves(value, << >>)}

\* every key of the value, at every depth, is non-empty and holds no dot
RECURSIVE CleanKeys(_)
CleanKeys(value) ==
  Tag(value) = "map" =>
    \A i \in DOMAIN Val(value) :
      /\ Val(value)[i][1] # << >>
      /\ "." \notin Range(Val(value)[i][1])
      /\ CleanKeys(Val(value)[i][2])

\* a value up to the order of its mappings' entries: Python's dict equality
RECURSIVE Unordered(_)
Unordered(value) ==
  IF Tag(value) = "map"
    THEN <<"map", {<<Val(value)[i][1], Unordered(Val(value)[i][2])>> : i \in DOMAIN Val(value)}>>
    ELSE value

\* every leaf of the record is in the FlatRow under the dot-joined path of
\* its keys, and the FlatRow has one cell per leaf
LeavesKept(record, flat) ==
  /\ \A lf \in Leaves(record, << >>) : DictGet(flat, JoinPath(lf[1])) = AsCell(lf[2])
  /\ Len(flat) = Cardinality(Leaves(record, << >>))

\* C4 as claimed: flatten_json is lossless on every mapping-rooted record:
\* each leaf is in the FlatRow under its dot-joined path, none is dropped or
\* overwritten, and two records that differ have FlatRows that differ.
C4_LosslessOnEveryRecord ==
  fpc # "input" =>
    /\ LeavesKept(rec, row)
    /\ LeavesKept(other, otherRow)
    /\ Unordered(rec) # Unordered(other) => Range(row) # Range(otherRow)

\* C4 as amended: on records whose keys, at every depth, are non-empty and
\* hold no dot, each leaf is in the FlatRow under its dot-joined path with
\* its value (a sequence as its serialized text), one cell per leaf, and two
\* such records whose leaves differ, in path or in value as serialized, have
\* FlatRows that differ.
C4_LosslessOnCleanKeys ==
  (fpc # "input" /\ CleanKeys(rec) /\ CleanKeys(other)) =>
    /\ LeavesKept(rec, row)
    /\ LeavesKept(other, otherRow)
    /\ CellLeaves(rec) # CellLeaves(other) => Range(row) # Range(otherRow)

\* a record with a nested leaf and one with another leaf, both flattened
C4_Witness ==
  /\ fpc = "flat"
  /\ CleanKeys(rec) /\ CleanKeys(other)
  /\ \E lf \in Leaves(rec, << >>) : Len(lf[1]) = 2 /\ Tag(lf[2]) = "list"
  /\ Cardinality(Leaves(other, << >>)) = 1
  /\ CellLeaves(rec) # CellLeaves(other)
  /\ Range(row) # Range(otherRow)

\* C10: flattening the FlatRow of a record, after a serialize/deserialize
\* round trip of that FlatRow, gives the same FlatRow: the same keys in the
\* same order (dotted keys included) with the same values.
C10_ReflattenIsIdentity ==
  fpc = "reflat" => reRow = row

\* a FlatRow with a dotted key made of a nested path, re-flattened
C10_Witness ==
  /\ fpc = "reflat"
  /\ \E lf \in Leaves(rec, << >>) : Len(lf[1]) = 2
  /\ \E i \in DOMAIN row : "." \in Range(row[i][1])
  /\ Len(row) >= 2
  /\ reRow = row

----------------------------------------------------------------------------
(* matches_to_csv *)

FlatRows(ms) == [i \in DOMAIN ms |-> flatten_json(ms[i], << >>)]

AllKeys(rows) == UNION {Range(DictKeys(rows[i])) : i \in DOMAIN rows}

\* where a key is first seen: the first row holding it, and its place there
FirstSeen(rows, key) ==
  LET i == CHOOSE i \in DOMAIN rows :
             /\ HasKey(rows[i], key)
             /\ \A h \in 1..(i - 1) : ~HasKey(rows[h], key)
  IN <<i, CHOOSE j \in DOMAIN rows[i] : rows[i][j][1] = key>>

Before(p, q) == p[1] < q[1] \/ (p[1] = q[1] /\ p[2] < q[2])

\* header holds each key of the rows once, ordered by first occurrence
IsFirstSeenOrder(header, rows) ==
  /\ Range(header) = AllKeys(rows)
  /\ Len(header) = Cardinality(AllKeys(rows))
  /\ \A a, b \in DOMAIN header :
       a < b => Before(FirstSeen(rows, header[a]), FirstSeen(rows, header[b]))

Orderings(n) == {p \in [1..n -> 1..n] : \A a, b \in 1..n : p[a] = p[b] => a = b}

\* the keys are first seen in the same relative order in both lists of rows
SameFirstSeenOrder(rows, others) ==
  /\ AllKeys(rows) = AllKeys(others)
  /\ \A k1, k2 \in AllKeys(rows) :
       Before(FirstSeen(rows, k1), FirstSeen(rows, k2))
         <=> Before(FirstSeen(others, k1), FirstSeen(others, k2))

\* C5: of a non-empty list of records matches_to_csv writes the header of
\* the distinct flattened keys in first-seen order, then one line per record
\* in input order, each cell holding the row's value for its column and the
\* empty text where the row lacks the column; a permutation of the records
\* that keeps the order in which the keys are first seen keeps the header.
C5_CsvLayout ==
  (cpc = "written" /\ matches # << >>) =>
    LET rows == FlatRows(matches)
    IN /\ Len(file) = Len(matches) + 1
       /\ IsFirstSeenOrder(file[1], rows)
       /\ \A i \in DOMAIN rows :
            /\ Len(file[i + 1]) = Len(file[1])
            /\ \A j \in DOMAIN file[1] :
                 file[i + 1][j] = IF HasKey(rows[i], file[1][j])
                                    THEN Val(DictGet(rows[i], file[1][j]))
                                    ELSE << >>
       /\ \A p \in Orderings(Len(matches)) :
            LET permuted == [i \in DOMAIN matches |-> matches[p[i]]]
            IN SameFirstSeenOrder(rows, FlatRows(permuted))
                 => matches_to_csv(permuted)[1] = file[1]

\* two records written, the second with a column the first lacks, one column
\* the flattened path of a nested key
C5_Witness ==
  /\ cpc = "written"
  /\ Len(matches) = 2
  /\ Len(file) = 3
  /\ Len(file[1]) >= 2
  /\ \E j \in DOMAIN file[1] :
       /\ ~HasKey(FlatRows(matches)[1], file[1][j])
       /\ file[2][j] = << >>
       /\ file[3][j] # << >>
  /\ \E lf \in Leaves(matches[1], << >>) : Len(lf[1]) = 2

----------------------------------------------------------------------------
(* standardize_types *)

\* C7: standardize_types applied to its own result returns that result,
\* cell by cell.
C7_StandardizeIdempotent ==
  spc = "twice" => twice = once

\* a table with a winner code to map and a team name to trim and collapse,
\* standardized twice
C7_Witness ==
  /\ spc = "twice"
  /\ {"score.winner", "homeTeam.name", "matchday"} \subseteq DOMAIN table
  /\ table["score.winner"][1] = StrCell(HOME_TEAM)
  /\ once[2]["score.winner"][1] = StrCell(<<"H">>)
  /\ table["homeTeam.name"][1] = StrCell(<<"a", " ", " ", " ", "b", "\t">>)
  /\ once[2]["homeTeam.name"][1] = StrCell(<<"a", "_", "b">>)
  /\ twice = once

IntColumns == {"matchday", "id", "homeTeam.id", "awayTeam.id"}
DateColumns == {"utcDate", "lastUpdated"}

\* a cell that converts to a whole number
WholeNumber(cell) ==
  LET n == ToNumericCell(cell)
  IN Kind(n) = "int" \/ (Kind(n) = "float" /\ Payload(n)[1] % 10 = 0)

\* C8 as claimed: standardize_types never raises; a cell of an integer
\* column that converts to no whole number, or of a datetime column that is
\* no date, becomes missing, the other cells are converted, and the result
\* has a row for each row of the input.
C8_CoercionNeverRaises ==
  spc # "input" =>
    /\ ~Raised(once)
    /\ \A c \in DOMAIN table :
         /\ Len(once[2][c]) = nrows
         /\ \A i \in 1..nrows :
              /\ c \in IntColumns =>
                   (Kind(once[2][c][i]) = "Int64" <=> WholeNumber(table[c][i]))
              /\ c \in IntColumns =>
                   (once[2][c][i] = NA <=> ~WholeNumber(table[c][i]))
              /\ c \in DateColumns =>
                   (once[2][c][i] = NaT <=> ToDatetimeCell(table[c][i]) = NaT)

----------------------------------------------------------------------------
(* FootballDataClient.get *)

\* C2 as claimed: whatever the outcomes of the requests, no request is
\* issued sooner than the minimum interval after the one before it, and N
\* calls take at least N - 1 minimum intervals from the first call to the
\* last return.
C2_RequestsAreSpaced ==
  /\ \A i \in 1..(Len(requests) - 1) :
       requests[i + 1].issued - requests[i].issued >= MIN_REQUEST_INTERVAL_SECONDS
  /\ requests # << >> =>
       requests[Len(requests)].done - requests[1].called
         >= (Len(requests) - 1) * MIN_REQUEST_INTERVAL_SECONDS

\* C3 as claimed: after every call of get that issued a request,
\* _last_request_ts is the time that request completed, whatever its outcome.
C3_TimestampAfterEveryRequest ==
  requests # << >> => last_request_ts = <<requests[Len(requests)].done>>

----------------------------------------------------------------------------
(* PremierLeagueFetcher.fetch *)

\* the name the file is to have: {resource_code_lower}_{season}_{status_lower}.json
RawFileName(params) ==
  Lower(params.competition_code) \o <<"_">> \o IntText(params.season) \o <<"_">>
    \o Lower(params.status) \o <<".", "j", "s", "o", "n">>

\* C9 as claimed: a persisted payload goes to the file named by the resource
\* code, the season and the status; fetches with the same three write the
\* same path, and fetches that differ in one of them write different paths.
C9_PathNamesTheRequest ==
  /\ \A i \in DOMAIN fetches :
       fetches[i].saved => fetches[i].path = RawFileName(fetches[i].params)
  /\ \A i, j \in DOMAIN fetches :
       (fetches[i].saved /\ fetches[j].saved) =>
         (fetches[i].params = fetches[j].params <=> fetches[i].path = fetches[j].path)

----------------------------------------------------------------------------
(* run_pipeline *)

\* C1 as claimed: a dataset that fails does not end the run: when the run
\* is over every dataset of DATASETS has been attempted.
C1_LaterDatasetsAttempted ==
  stage \in {"done", "aborted"} => attempted = DOMAIN DATASETS

\* C6 as claimed: of a payload without the "matches" key, or that is no
\* mapping, ingest_dataset writes the empty table, and the stages after it do
\* not fail on that empty table.
C6_EmptyTableIsNoFailure ==
  \A k \in attempted :
    (shapes[k] \in {"no_key", "not_mapping"} /\ rawCsv[k] # NotYet) =>
       /\ rawCsv[k] = << >>
       /\ ~(dataset = k /\ stage = "aborted" /\ exception = "EmptyDataError")

============================================================================
